---- MODULE Spec2Model ----
(***************************************************************************)
(* Growthlabs dispatcher: the Job Store (tool_runs), the sync endpoint     *)
(* (bulk_sync), the Bright Data dispatch worker (worker_loop and           *)
(* _process_run_brightdata), the webhook, the result normalizer and the    *)
(* inbox of brightdata/.history/Growthlabs/dispatcher_20250726135709.py    *)
(* (variant "aggregate"), also with overlapping bulk_sync requests and     *)
(* with a second worker process; bulk_sync and the stub worker of          *)
(* dispatcher_20250726131341.py (variant "per_addition"); sync_targets,    *)
(* its background task and the inbox of brightdata/Growthlabs/             *)
(* dispatcher_api.py (variant "api"); simple_sentiment of dispatcher_api   *)
(* and of dispatcher_mcp_20250726150006.py.                                *)
(*                                                                         *)
(* Python values are encoded as follows.  A JSON payload is a record       *)
(* [null, keys, dataset_id, inputs]: null is Python None, keys is the set  *)
(* of keys of the dict, inputs is a tag for the value under "inputs"       *)
(* ("null", "empty" = [], "list" = a non-empty list, "str" = a non-list).  *)
(* A text (Job.error, last_err) is a record [text, attempt]: attempt is    *)
(* the number of the API call whose failure the text quotes (0 when the    *)
(* text quotes none), and text = "" is Python None.  A header value is a   *)
(* sequence of one-character strings.                                      *)
(***************************************************************************)
EXTENDS Integers, Sequences, FiniteSets, TLC

\* ------------------------------------------------------------- bounds
\* Rows the Job Store may hold (bulk_sync stops adding beyond it).
MaxJobs == 2
\* Job rows already in the store when the process starts.
MaxSeed == 1
\* Store operations that may raise in one run (SpecFault only).
MaxFaults == 1
\* Syncs that reach the store (SpecSync and SpecStub only).
MaxSyncs == 3
\* Rows the Results table holds before the webhook stops (SpecResults only).
MaxResults == 2
\* Tokens of a text handed to simple_sentiment (SpecSentiment only).
MaxLen == 3
\* Runs that dispatcher_api creates (FairSpecApi and SpecInbox only).
MaxRuns == 2
\* bulk_sync requests that arrive, overlapping or not (SpecRace only).
MaxInflight == 2

\* ------------------------------------------------------------- configuration
DISPATCHER_SECRET == "changeme"
\* while attempt < 3
MaxAttempts == 3

TOOL == "brightdata:trigger"

\* ------------------------------------------------------------- values
NoText == [text |-> "", attempt |-> 0]
Text(s, k) == [text |-> s, attempt |-> k]

NoOutput == [null |-> TRUE, snapshot_id |-> "", raw |-> 0]

PayloadKeys == {"dataset_id", "inputs", "format", "reason"}
Payload(n, ks, d, i) == [null |-> n, keys |-> ks, dataset_id |-> d, inputs |-> i]

\* build_search_inputs() returns a non-empty list of query dicts
build_search_inputs == "list"

\* The payload bulk_sync enqueues when a dataset is configured.
SyncPayload(ds) == Payload(FALSE, {"dataset_id", "inputs", "format"}, ds, build_search_inputs)
\* The payload bulk_sync stores when no dataset is configured.
MissingDatasetPayload == Payload(FALSE, {"reason"}, "", "null")

\* Payloads of rows found in the store at start-up.
SeedPayloads ==
    { Payload(FALSE, {"dataset_id", "inputs", "format"}, "gd", "list"),
      Payload(FALSE, {"inputs", "format"}, "", "list"),
      Payload(FALSE, {"dataset_id", "format"}, "gd", "null"),
      Payload(FALSE, {"dataset_id", "inputs"}, "gd", "str"),
      Payload(FALSE, {"dataset_id", "inputs"}, "gd", "empty"),
      Payload(FALSE, {}, "", "null"),
      Payload(TRUE, {}, "", "null") }

\* Python truthiness of run.input: None and {} are falsy.
PayloadFalsy(p) == p.null \/ p.keys = {}
\* payload.get("dataset_id")
GetDatasetId(p) == IF "dataset_id" \in p.keys THEN p.dataset_id ELSE ""
\* payload.get("inputs", [])
GetInputs(p) == IF "inputs" \in p.keys THEN p.inputs ELSE "empty"
\* not dataset_id or not isinstance(inputs, list) or not inputs
InvalidInput(p) ==
    \/ GetDatasetId(p) = ""
    \/ GetInputs(p) \notin {"empty", "list"}
    \/ GetInputs(p) \in {"empty", "null"}

ToolRun(trig, st, inp, err) ==
    [trigger_id |-> trig, tool |-> TOOL, status |-> st, input |-> inp,
     output |-> NoOutput, error |-> err]

\* ------------------------------------------------------------- state
VARIABLES
    WORKER_CONCURRENCY,         \* int(os.getenv("WORKER_CONCURRENCY", "5"))
    BRIGHTDATA_TOKEN,           \* "" when the variable is unset
    BRIGHTDATA_DATASET_SEARCH,  \* "" when the variable is unset
    tool_runs,                  \* the Job Store: row id -> row
    triggers,                   \* the triggers table: row id -> row
    target_users,               \* the Target Registry: row id -> row
    now,                        \* datetime.utcnow(), a logical clock
    loop,                       \* worker_loop: its position
    tasks,                      \* the _wrap tasks that are alive
    sem,                        \* permits left in the semaphore
    hist,                       \* per Job: what the worker did for it
    faults,                     \* store operations that raised so far
    variant,                    \* the dispatcher file that is deployed
    _vader,                     \* whether vaderSentiment could be imported
    reply,                      \* the response to the last HTTP request
    bd_results,                 \* the Results table: row id -> row
    runs,                       \* the runs table of dispatcher_api: row id -> row
    sentiment,                  \* the last text labelled by simple_sentiment
    API_TOKEN,                  \* os.getenv("API_TOKEN"), "" when unset
    reviews,                    \* the reviews table of dispatcher_api: row id -> row
    bg,                         \* per Run: its background task process()
    peer,                       \* a second worker process: pairs <<Job, how far it got>>
    syncs                       \* bulk_sync requests that are being handled

vars == <<WORKER_CONCURRENCY, BRIGHTDATA_TOKEN, BRIGHTDATA_DATASET_SEARCH, tool_runs, triggers,
          target_users, now, loop, tasks, sem, hist, faults, variant, _vader, reply,
          bd_results, runs, sentiment, API_TOKEN, reviews, bg, peer, syncs>>

config == <<WORKER_CONCURRENCY, BRIGHTDATA_TOKEN, BRIGHTDATA_DATASET_SEARCH, variant, _vader,
            API_TOKEN>>

\* what neither bulk_sync nor the dispatch worker touches
side == <<bd_results, runs, sentiment, reviews, bg, peer, syncs>>
\* the tables and the background tasks of dispatcher_api
apistate == <<runs, reviews, bg>>
\* what only concurrent processes and concurrent requests touch
race == <<peer, syncs>>

\* limit(WORKER_CONCURRENCY * 2) of the poll query
PollLimit == WORKER_CONCURRENCY * 2
store == <<tool_runs, triggers, target_users>>
worker == <<loop, tasks, sem, hist>>

JobIds == DOMAIN tool_runs

\* ------------------------------------------------------------- helpers
RECURSIVE SetToSeq(_)
\* The elements of a finite set, in one fixed order.
SetToSeq(S) == IF S = {} THEN <<>>
               ELSE LET x == CHOOSE y \in S : TRUE IN <<x>> \o SetToSeq(S \ {x})

RECURSIVE Ascending(_)
\* The elements of a finite set of numbers, lowest first.
Ascending(S) == IF S = {} THEN <<>>
                ELSE LET x == CHOOSE y \in S : \A z \in S : y <= z
                     IN <<x>> \o Ascending(S \ {x})

Take(s, n) == SubSeq(s, 1, IF Len(s) < n THEN Len(s) ELSE n)
Remove(s, i) == SubSeq(s, 1, i - 1) \o SubSeq(s, i + 1, Len(s))
Range(s) == {s[i] : i \in DOMAIN s}

\* ------------------------------------------------------------- sync endpoint
\* query_params.get("secret") / headers.get(...): None when absent
NoSecret == [present |-> FALSE, value |-> ""]
Secret(v) == [present |-> TRUE, value |-> v]

\* The body and the secret of a sync request.
SyncRequest(secret, window, distinct_ids, mode) ==
    [secret |-> secret, window |-> window, distinct_ids |-> distinct_ids, mode |-> mode]

\* The response to a request, kept with the request it answers; the reply
\* variable before any request.
Reply(request, code, inserted, removed) ==
    [request |-> request, code |-> code, inserted |-> inserted, removed |-> removed]
NoReply == [code |-> 0]

\* TargetUser(distinct_id=did, window=p.window, active=1), one row per id of ids
Targets(ids, window) ==
    [i \in 1..Len(ids) |->
        [distinct_id |-> ids[i], window |-> window, active |-> 1,
         created_at |-> now, updated_at |-> now]]

\* RequireSecret that accepts every secret that is present.
RequireSecretAnyValue(secret) == secret.present

\* 401 unless the query parameter equals the configured secret
RequireSecret(secret) == secret.present /\ secret.value = DISPATCHER_SECRET

\* SyncJob with status="error" left out of the missing-dataset row: the column
\* default applies.
SyncJobDefaultStatus(trig) ==
    IF BRIGHTDATA_DATASET_SEARCH = ""
    THEN ToolRun(trig, "queued", MissingDatasetPayload,
                 Text("Missing BRIGHTDATA_DATASET_SEARCH", 0))
    ELSE ToolRun(trig, "queued", SyncPayload(BRIGHTDATA_DATASET_SEARCH), NoText)

\* SyncJob without the missing-dataset branch.
SyncJobAlwaysQueued(trig) ==
    ToolRun(trig, "queued", SyncPayload(BRIGHTDATA_DATASET_SEARCH), NoText)

\* The Job a sync enqueues (lines 166-185).
SyncJob(trig) ==
    IF BRIGHTDATA_DATASET_SEARCH = ""
    THEN ToolRun(trig, "error", MissingDatasetPayload,
                 Text("Missing BRIGHTDATA_DATASET_SEARCH", 0))
    ELSE ToolRun(trig, "queued", SyncPayload(BRIGHTDATA_DATASET_SEARCH), NoText)

NoHist == [calls |-> 0, claims |-> 0, ok |-> FALSE, returned |-> FALSE]

\* Trigger(kind="targets_sync", metric=f"window:{p.window}", curr_value=...)
SyncTrigger(window, curr) ==
    [kind |-> "targets_sync", metric |-> <<"window:", window>>, curr_value |-> curr]

\* the rows with active == 1
ActiveRows == {i \in DOMAIN target_users : target_users[i].active = 1}
\* the keys of the dict existing
ExistingIds == {target_users[i].distinct_id : i \in ActiveRows}

\* Removed that deactivates in every mode.
RemovedInEveryMode(incoming, mode) ==
    {i \in ActiveRows : target_users[i].distinct_id \notin incoming}

\* the rows a sync deactivates: in replace mode, the active rows whose id is
\* not incoming
Removed(incoming, mode) ==
    IF mode = "replace"
    THEN {i \in ActiveRows : target_users[i].distinct_id \notin incoming}
    ELSE {}

\* the ids a sync inserts: incoming and not in existing
Added(incoming) == incoming \ ExistingIds

\* Deactivate that also refreshes updated_at of the rows that stay active.
DeactivateAndTouch(removed) ==
    [i \in DOMAIN target_users |->
        IF i \in removed
        THEN [target_users[i] EXCEPT !.active = 0, !.updated_at = now]
        ELSE [target_users[i] EXCEPT !.updated_at = now]]

\* target_users after row.active = 0; row.updated_at = utcnow() on the rows of removed
Deactivate(removed) ==
    [i \in DOMAIN target_users |->
        IF i \in removed
        THEN [target_users[i] EXCEPT !.active = 0, !.updated_at = now]
        ELSE target_users[i]]

\* distinct_id is declared unique: the INSERT of an id that a row, active or
\* not, already holds fails at commit
UniqueViolation(did) == \E i \in DOMAIN target_users : target_users[i].distinct_id = did

\* Inserts with neither the test against existing nor the unique constraint.
InsertsUnchecked(incoming) == [ids |-> incoming, conflict |-> FALSE]

\* The ids a sync inserts, and whether the commit of the INSERTs breaks the
\* unique constraint (lines 156-158, 61, 163).
Inserts(incoming) ==
    [ids |-> Added(incoming), conflict |-> \E did \in Added(incoming) : UniqueViolation(did)]

\* POST /targets/bulk_sync of dispatcher_20250726135709.py
BulkSync(secret, window, distinct_ids, mode) ==
    /\ variant = "aggregate"
    /\ LET request == SyncRequest(secret, window, distinct_ids, mode)
       IN IF ~RequireSecret(secret)
          THEN /\ reply' = Reply(request, 401, 0, 0)
               /\ UNCHANGED <<store, now, hist>>
          ELSE LET incoming == Range(distinct_ids)
                   removed == Removed(incoming, mode)
                   inserts == Inserts(incoming)
               IN IF inserts.conflict
                  THEN \* commit raises at line 163; the session rolls back
                       /\ reply' = Reply(request, 500, 0, 0)
                       /\ UNCHANGED <<store, now, hist>>
                  ELSE /\ target_users' =
                              Deactivate(removed) \o Targets(SetToSeq(inserts.ids), window)
                       /\ triggers' =
                              Append(triggers, SyncTrigger(window, Cardinality(incoming)))
                       /\ tool_runs' = Append(tool_runs, SyncJob(Len(triggers) + 1))
                       /\ hist' = Append(hist, NoHist)
                       /\ now' = now + 1
                       /\ reply' = Reply(request, 200, Cardinality(inserts.ids),
                                         Cardinality(removed))
    /\ UNCHANGED <<config, side, loop, tasks, sem, faults>>

\* ------------------------------------------------------------- per-addition variant
STUB_TOOL == "brightdata:run_job"
\* the poll of the stub worker: limit(10)
StubLimit == 10

\* input={"dataset": ..., "args": {"user_distinct_id": did}, "format": "json"}
PerAdditionPayload(did) ==
    [null |-> FALSE, keys |-> {"dataset", "args", "format"}, dataset_id |-> "",
     inputs |-> "null", user_distinct_id |-> did]

\* PerAdditionJob that is created running.
PerAdditionJobRunning(trig, did) ==
    [trigger_id |-> trig, tool |-> STUB_TOOL, status |-> "running",
     input |-> PerAdditionPayload(did), output |-> NoOutput, error |-> NoText]

\* ToolRun(trigger_id=trig.id, tool="brightdata:run_job", input=..., status="queued")
PerAdditionJob(trig, did) ==
    [trigger_id |-> trig, tool |-> STUB_TOOL, status |-> "queued",
     input |-> PerAdditionPayload(did), output |-> NoOutput, error |-> NoText]

\* The orders in which `for did in incoming` may visit the ids of S.
Orders(S) == {o \in [1..Cardinality(S) -> S] : Range(o) = S}

\* The first position of order whose INSERT breaks the unique constraint,
\* Len(order) + 1 when there is none.
FirstViolation(order) ==
    LET bad == {k \in DOMAIN order : UniqueViolation(order[k])}
    IN IF bad = {} THEN Len(order) + 1 ELSE CHOOSE k \in bad : \A j \in bad : k <= j

\* POST /targets/bulk_sync of dispatcher_20250726131341.py: the loop commits the
\* Target and the Trigger of an id before it adds the Job of that id, which the
\* next commit persists.
BulkSyncPerAddition(secret, window, distinct_ids, mode) ==
    /\ variant = "per_addition"
    /\ IF secret = NoSecret \/ secret.value # DISPATCHER_SECRET
       THEN /\ reply' = Reply(SyncRequest(secret, window, distinct_ids, mode), 401, 0, 0)
            /\ UNCHANGED <<store, now, hist>>
       ELSE LET incoming == Range(distinct_ids)
                removed == Removed(incoming, mode)
            IN \E order \in Orders(Added(incoming)) :
                 LET f == FirstViolation(order)
                     failed == f <= Len(order)
                     \* the ids whose Target and Trigger were committed
                     done == SubSeq(order, 1, f - 1)
                     \* the ids whose Job was committed
                     jobs == IF failed THEN SubSeq(order, 1, f - 2) ELSE order
                 IN /\ target_users' =
                           IF failed /\ f = 1 THEN target_users
                           ELSE Deactivate(removed) \o Targets(done, window)
                    /\ triggers' = triggers \o [k \in DOMAIN done |-> SyncTrigger(window, 1)]
                    /\ tool_runs' = tool_runs \o
                           [k \in DOMAIN jobs |-> PerAdditionJob(Len(triggers) + k, jobs[k])]
                    /\ hist' = hist \o [k \in DOMAIN jobs |-> NoHist]
                    /\ now' = now + 1
                    /\ reply' = Reply(SyncRequest(secret, window, distinct_ids, mode),
                                      IF failed THEN 500 ELSE 200,
                                      IF failed THEN 0 ELSE Len(order),
                                      IF failed THEN 0 ELSE Cardinality(removed))
    /\ UNCHANGED <<config, side, loop, tasks, sem, faults>>

\* The rows the stub worker_loop fetched: queued, at most StubLimit of them.
StubQueued == Take(Ascending({r \in JobIds : tool_runs[r].status = "queued"}), StubLimit)

\* run.status = "running"; commit (line 111): the loop takes its rows one by one
StubMarkRunning(r) ==
    /\ variant = "per_addition"
    /\ r \in Range(StubQueued)
    /\ \A q \in JobIds : tool_runs[q].status # "running"
    /\ tool_runs' = [tool_runs EXCEPT ![r].status = "running"]
    /\ hist' = [hist EXCEPT ![r].claims = @ + 1]
    /\ UNCHANGED <<config, reply, side, triggers, target_users, now, loop, tasks, sem, faults>>

\* run.output = {...stub...}; run.status = "success"; commit (lines 113-114)
StubMarkSuccess(r) ==
    /\ variant = "per_addition"
    /\ r \in JobIds
    /\ tool_runs[r].status = "running"
    /\ tool_runs' = [tool_runs EXCEPT ![r].status = "success",
                        ![r].output = [null |-> FALSE, snapshot_id |-> "", raw |-> 0]]
    /\ hist' = [hist EXCEPT ![r].returned = TRUE]
    /\ UNCHANGED <<config, reply, side, triggers, target_users, now, loop, tasks, sem, faults>>

\* ------------------------------------------------------------- dispatcher_api
\* os.getenv("DISPATCHER_SECRET", <default>) of sync_targets
API_SECRET == "I3gp3MFUpDcWRcjvIMdRF-gALZvtzv5smRZR0uugu8w"

\* Run(kind="targets_sync", metric=f"window:{body.window}", status="running", note=...)
Run(window, n) ==
    [kind |-> "targets_sync", metric |-> <<"window:", window>>, status |-> "running",
     note |-> <<"Processing", n>>]

\* SEARCH_QUERIES (lines 75-80)
SEARCH_QUERIES == <<"reviews", "site:reddit.com", "site:devpost.com", "hackathon feedback">>

\* Review(run_id=run.id, user_distinct_id=distinct_id, query=query, ...,
\* sentiment="neutral")
Review(run_id, distinct_id, query) ==
    [run_id |-> run_id, user_distinct_id |-> distinct_id, source |-> "brightdata",
     query |-> query, sentiment |-> "neutral"]

\* process() of a Run that has not started: its position, the users it has yet
\* to harvest, the harvests that raised, and the exception it caught.
BgTask(insert) == [pc |-> "start", todo |-> insert, failed |-> 0, exc |-> ""]

\* POST /targets/sync of dispatcher_api.py: the secret travels in the header
\* X-Dispatcher-Secret; the Run is stored and the harvest is left to a
\* background task.
SyncTargets(secret, window, insert) ==
    /\ variant = "api"
    /\ IF secret = NoSecret \/ secret.value # API_SECRET
       THEN /\ reply' = Reply(SyncRequest(secret, window, insert, "insert"), 401, 0, 0)
            /\ UNCHANGED <<runs, bg>>
       ELSE /\ runs' = Append(runs, Run(window, Len(insert)))
            /\ bg' = Append(bg, BgTask(insert))
            /\ reply' = Reply(SyncRequest(secret, window, insert, "insert"), 200, 0, 0)
    /\ UNCHANGED <<config, store, now, worker, faults, bd_results, sentiment, reviews, race>>

\* bd_api = BrightDataAPI() (lines 84-87, 260): RuntimeError without API_TOKEN
Construct(r) ==
    /\ variant = "api"
    /\ bg[r].pc = "start"
    /\ bg' = IF API_TOKEN = ""
             THEN [bg EXCEPT ![r].pc = "raised", ![r].exc = "API_TOKEN is required"]
             ELSE [bg EXCEPT ![r].pc = "loop"]
    /\ UNCHANGED <<config, store, now, worker, faults, reply, bd_results, sentiment,
                   runs, reviews, race>>

\* The queries of one user for which create_search_snapshots returns a
\* snapshot; for the others it returns [] (lines 130-161).
SnapshotOutcomes == { {}, DOMAIN SEARCH_QUERIES }

\* The rows harvest_for_user adds for the queries in found, in query order.
RECURSIVE ReviewRows(_, _, _, _)
ReviewRows(run_id, distinct_id, found, q) ==
    IF q > Len(SEARCH_QUERIES) THEN <<>>
    ELSE (IF q \in found THEN <<Review(run_id, distinct_id, SEARCH_QUERIES[q])>> ELSE <<>>)
             \o ReviewRows(run_id, distinct_id, found, q + 1)

\* harvest_for_user without its except clause: the exception reaches process().
OnHarvestExceptionEscapes == "raised"

\* except Exception in harvest_for_user: db.rollback(), and the loop of
\* process() goes on (lines 233-235)
OnHarvestException == "loop"

\* harvest_for_user for the next user of Run r (lines 200-235): the rows are
\* committed at the end; when anything raised, they are rolled back.
harvest_for_user(r, found, raised) ==
    /\ variant = "api"
    /\ bg[r].pc = "loop"
    /\ bg[r].todo # <<>>
    /\ IF raised
       THEN /\ bg' = [bg EXCEPT ![r].pc = OnHarvestException, ![r].todo = Tail(@),
                                ![r].failed = @ + 1,
                                ![r].exc = IF OnHarvestException = "loop" THEN "" ELSE "harvest"]
            /\ UNCHANGED reviews
       ELSE /\ bg' = [bg EXCEPT ![r].todo = Tail(@)]
            /\ reviews' = reviews \o ReviewRows(r, Head(bg[r].todo), found, 1)
    /\ UNCHANGED <<config, store, now, worker, faults, reply, bd_results, sentiment,
                   runs, race>>

\* The loop of process() is over: run.status = "success" (lines 266-269)
ProcessSuccess(r) ==
    /\ variant = "api"
    /\ bg[r].pc = "loop"
    /\ bg[r].todo = <<>>
    /\ runs' = [runs EXCEPT ![r].status = "success", ![r].note = <<"Completed", @[2]>>]
    /\ bg' = [bg EXCEPT ![r].pc = "done"]
    /\ UNCHANGED <<config, store, now, worker, faults, reply, bd_results, sentiment,
                   reviews, race>>

\* The commit of line 269 raises: nothing is written and the exception
\* reaches the except clause of process().
ProcessRaise(r) ==
    /\ variant = "api"
    /\ faults < MaxFaults
    /\ bg[r].pc = "loop"
    /\ bg[r].todo = <<>>
    /\ bg' = [bg EXCEPT ![r].pc = "raised", ![r].exc = "commit"]
    /\ faults' = faults + 1
    /\ UNCHANGED <<config, store, now, worker, reply, bd_results, sentiment,
                   runs, reviews, race>>

\* except Exception in process(): run.status = "error" (lines 271-276)
ProcessError(r) ==
    /\ variant = "api"
    /\ bg[r].pc = "raised"
    /\ runs' = [runs EXCEPT ![r].status = "error", ![r].note = <<"Error", bg[r].exc>>]
    /\ bg' = [bg EXCEPT ![r].pc = "done"]
    /\ UNCHANGED <<config, store, now, worker, faults, reply, bd_results, sentiment,
                   reviews, race>>

\* The steps of the background tasks.
Process ==
    \/ \E r \in DOMAIN bg : Construct(r)
    \/ \E r \in DOMAIN bg, found \in SnapshotOutcomes, raised \in BOOLEAN :
           harvest_for_user(r, found, raised)
    \/ \E r \in DOMAIN bg : ProcessSuccess(r)
    \/ \E r \in DOMAIN bg : ProcessError(r)

\* ------------------------------------------------------------- result normalizer
\* A value of a scraped record: a string, or something that is no string.
Str(v) == [str |-> TRUE, v |-> v]
NonStr == [str |-> FALSE, v |-> ""]
\* v.strip(): the strings made of whitespace only become ""
Strip(v) == IF v \in {"", " ", "\t "} THEN "" ELSE v

RECURSIVE Pick(_, _)
\* the first key of keys whose value is a string that is not blank, "" if none
Pick(rec, keys) ==
    IF keys = <<>> THEN ""
    ELSE LET k == Head(keys)
         IN IF k \in DOMAIN rec /\ rec[k].str /\ Strip(rec[k].v) # ""
            THEN rec[k].v
            ELSE Pick(rec, Tail(keys))

_pick_text(rec) == Pick(rec, <<"text", "snippet", "description", "body", "content">>)
_pick_title(rec) == Pick(rec, <<"title", "headline", "page_title", "post_title", "q">>)
_pick_url(rec) == Pick(rec, <<"url", "link", "permalink">>)

\* _vader.polarity_scores(f"{title}. {text}")["compound"], in tenths: the score
\* the analyzer gives to the texts of the records used here
Compound(title, text) ==
    CASE text = "love it" -> 3
      [] text = "hate it" -> 0 - 3
      [] text = "fine" -> 2
      [] OTHER -> 0

\* the thresholds 0.3 and -0.3, in tenths
LabelThreshold == 3
_label(score) ==
    IF score >= LabelThreshold THEN "positive"
    ELSE IF score <= 0 - LabelThreshold THEN "negative"
    ELSE "neutral"

\* The BDResult rows of a batch, in the order of the records (lines 367-382).
RECURSIVE ResultRows(_, _)
ResultRows(records, snapshot_id) ==
    IF records = <<>> THEN <<>>
    ELSE LET rec == Head(records)
             text == _pick_text(rec)
             title == _pick_title(rec)
             url == _pick_url(rec)
             s == IF _vader THEN Compound(title, text) ELSE 0
             sent == IF _vader THEN _label(s) ELSE "neutral"
             rest == ResultRows(Tail(records), snapshot_id)
         IN IF text = "" /\ title = ""
            THEN rest
            ELSE <<[snapshot_id |-> snapshot_id, source |-> "web", url |-> url,
                    title |-> title, text |-> text, sentiment |-> sent, score |-> s]>>
                 \o rest

\* the Results table after upsert_records: every row of the batch is added
upsert_records(records, snapshot_id) == bd_results \o ResultRows(records, snapshot_id)

\* payload.get(k) or default, for a list: a missing key and [] are falsy
GetListOr(payload, k, default) ==
    IF k \in DOMAIN payload /\ payload[k] # <<>> THEN payload[k] ELSE default
\* payload.get(k) or default, for a string: a missing key and "" are falsy
GetStrOr(payload, k, default) ==
    IF k \in DOMAIN payload /\ payload[k] # "" THEN payload[k] ELSE default

\* POST /webhooks/brightdata
brightdata_webhook(payload) ==
    LET records == GetListOr(payload, "records", GetListOr(payload, "data", <<>>))
        snapshot_id == GetStrOr(payload, "snapshot_id", GetStrOr(payload, "id", "unknown"))
    IN /\ variant = "aggregate"
       /\ bd_results' = upsert_records(records, snapshot_id)
       /\ reply' = [code |-> 200, received |-> Len(records), request |-> payload]
       /\ UNCHANGED <<config, store, now, worker, faults, apistate, race, sentiment>>

\* ------------------------------------------------------------- inbox
\* limit(50) of the aggregate inbox, limit: int = 50 of dispatcher_api
InboxLimit == 50

\* order_by(id.desc()).limit(InboxLimit): the ids of the newest rows of a table
Newest(table) ==
    LET n == Len(table)
        k == IF n < InboxLimit THEN n ELSE InboxLimit
    IN [i \in 1..k |-> n + 1 - i]

\* t.runs: the Jobs of Trigger t as the response shows them
RunsOf(t) ==
    LET ids == Ascending({r \in JobIds : tool_runs[r].trigger_id = t})
    IN [i \in DOMAIN ids |->
           [id |-> ids[i], tool |-> tool_runs[ids[i]].tool, status |-> tool_runs[ids[i]].status,
            input |-> tool_runs[ids[i]].input, output |-> tool_runs[ids[i]].output,
            error |-> tool_runs[ids[i]].error]]

\* sentiment_summary_24h: the stored Results per label (every row of the model
\* is younger than 24 hours)
Rollup ==
    [label \in {"positive", "negative", "neutral"} |->
        Cardinality({k \in DOMAIN bd_results : bd_results[k].sentiment = label})]

\* The response of the inbox of dispatcher_20250726135709.py (lines 192-216).
InboxOfTriggers ==
    LET ids == Newest(triggers)
    IN [i \in DOMAIN ids |->
           [id |-> ids[i], kind |-> triggers[ids[i]].kind, metric |-> triggers[ids[i]].metric,
            curr |-> triggers[ids[i]].curr_value, runs |-> RunsOf(ids[i]),
            sentiment_summary_24h |-> IF bd_results = <<>> THEN <<>> ELSE Rollup,
            samples |-> Take(bd_results, 10)]]

\* The response of the inbox of dispatcher_api.py (lines 284-316).
InboxOfRuns ==
    LET ids == Newest(runs)
    IN [i \in DOMAIN ids |->
           [id |-> ids[i], kind |-> runs[ids[i]].kind, metric |-> runs[ids[i]].metric,
            status |-> runs[ids[i]].status, note |-> runs[ids[i]].note,
            items |-> SelectSeq(reviews, LAMBDA review : review.run_id = ids[i])]]

InboxRequest == [path |-> "/inbox"]

\* A session that is closed after an add and its commit: its newest row is gone.
SessionClosedAfterDelete(table) == SubSeq(table, 1, Len(table) - 1)

\* with SessionLocal() as db: ... return: inbox only queries, it calls no
\* db.add, no db.delete and no db.commit, and the session is closed with the
\* table as it was.
SessionClosed(table) == table

\* GET /inbox
inbox ==
    /\ variant \in {"aggregate", "api"}
    /\ reply' = [code |-> 200, request |-> InboxRequest,
                 body |-> IF variant = "api" THEN InboxOfRuns ELSE InboxOfTriggers]
    /\ triggers' = SessionClosed(triggers)
    /\ tool_runs' = SessionClosed(tool_runs)
    /\ bd_results' = SessionClosed(bd_results)
    /\ runs' = SessionClosed(runs)
    /\ reviews' = SessionClosed(reviews)
    /\ UNCHANGED <<config, target_users, now, worker, faults, sentiment, bg, race>>

\* ------------------------------------------------------------- keyword sentiment
POS == {"good", "great", "love", "helpful", "useful", "amazing", "excellent", "positive",
        "recommend", "win", "best"}
NEG == {"bad", "hate", "awful", "worst", "bug", "spam", "scam", "negative", "problem",
        "issue", "slow", "confusing"}

\* A text is a sequence of tokens.  text.lower(), token by token:
Lower(token) ==
    CASE token = "Great" -> "great"
      [] token = "BAD" -> "bad"
      [] OTHER -> token
\* the keywords that occur in a lower-case token, as substrings
KeywordsIn(token) ==
    CASE token = "good" -> {"good"}
      [] token = "great" -> {"great"}
      [] token = "bad" -> {"bad"}
      [] token = "debug" -> {"bug"}
      [] token = "winner" -> {"win"}
      [] OTHER -> {}

RECURSIVE Count(_, _)
\* t.count(w): the occurrences of keyword w in the text
Count(text, w) ==
    IF text = <<>> THEN 0
    ELSE (IF w \in KeywordsIn(Lower(Head(text))) THEN 1 ELSE 0) + Count(Tail(text), w)

RECURSIVE McpCount(_, _)
\* p and n of dispatcher_mcp, sum(t.count(w) for w in words): every occurrence
\* of a keyword counts
McpCount(text, words) ==
    IF words = {} THEN 0
    ELSE LET w == CHOOSE x \in words : TRUE
         IN Count(text, w) + McpCount(text, words \ {w})
\* pos_count and neg_count of dispatcher_api: a keyword counts once
ApiCount(text, words) == Cardinality({w \in words : Count(text, w) > 0})

\* the margin of dispatcher_mcp: p - n >= 2
McpMargin == 2

\* simple_sentiment of dispatcher_mcp_20250726150006.py
simple_sentiment_mcp(text) ==
    LET p == McpCount(text, POS)
        n == McpCount(text, NEG)
    IN IF p - n >= McpMargin THEN "positive"
       ELSE IF n - p >= McpMargin THEN "negative"
       ELSE "neutral"

\* ApiLabel with >= in its first test: a tie is labelled positive.
ApiLabelTiePositive(pos_count, neg_count) ==
    IF pos_count >= neg_count THEN "positive"
    ELSE IF neg_count > pos_count THEN "negative"
    ELSE "neutral"

\* the comparisons of simple_sentiment of dispatcher_api.py (lines 183-187)
ApiLabel(pos_count, neg_count) ==
    IF pos_count > neg_count THEN "positive"
    ELSE IF neg_count > pos_count THEN "negative"
    ELSE "neutral"

\* simple_sentiment of dispatcher_api.py
simple_sentiment_api(text) ==
    IF text = <<>> THEN "neutral"
    ELSE ApiLabel(ApiCount(text, POS), ApiCount(text, NEG))

\* One text is labelled by both variants.
SimpleSentiment(text) ==
    /\ sentiment' = [text |-> text, mcp |-> simple_sentiment_mcp(text),
                     api |-> simple_sentiment_api(text)]
    /\ UNCHANGED <<config, store, now, worker, faults, reply, bd_results, apistate, race>>

\* ------------------------------------------------------------- responses
Digits == {"0", "1", "2", "3", "4", "5", "6", "7", "8", "9"}
DigitValue(c) ==
    CASE c = "0" -> 0 [] c = "1" -> 1 [] c = "2" -> 2 [] c = "3" -> 3 [] c = "4" -> 4
      [] c = "5" -> 5 [] c = "6" -> 6 [] c = "7" -> 7 [] c = "8" -> 8 [] c = "9" -> 9

\* str.isdigit(): non-empty and every character a digit
IsDigit(s) == Len(s) > 0 /\ \A i \in DOMAIN s : s[i] \in Digits

RECURSIVE ParseInt(_)
\* int(s) of a digit string
ParseInt(s) == IF s = <<>> THEN 0
               ELSE 10 * ParseInt(SubSeq(s, 1, Len(s) - 1)) + DigitValue(s[Len(s)])

Resp(kind, has, ra) == [kind |-> kind, has_ra |-> has, ra |-> ra]
NoResp == Resp("none", FALSE, <<>>)

\* Retry-After values a 429 may carry: seconds, an empty value, an HTTP date
RetryAfterValues == { <<"0">>, <<"1", "2">>, <<>>, <<"S", "a", "t">> }

\* What one POST to BRIGHTDATA_ENDPOINT can end in.
Responses ==
    { Resp("ok", FALSE, <<>>),             \* 2xx with a JSON object
      Resp("http_error", FALSE, <<>>),     \* raise_for_status() raises
      Resp("request_error", FALSE, <<>>),  \* httpx.RequestError (network, timeout)
      Resp("exception", FALSE, <<>>),      \* anything else, e.g. a body that is no JSON
      Resp("429", FALSE, <<>>) }
    \cup { Resp("429", TRUE, ra) : ra \in RetryAfterValues }

\* wait = int(ra) if ra and ra.isdigit() else 2 ** attempt
RetryAfterWait(r, attempt) ==
    IF r.has_ra /\ r.ra # <<>> /\ IsDigit(r.ra) THEN ParseInt(r.ra) ELSE 2 ^ attempt

\* On429 without its continue: raise_for_status() raises on the 429 and the
\* common backoff follows the Retry-After sleep.
On429NoContinue(r, attempt, last_err) ==
    [done |-> FALSE, last_err |-> Text("HTTP", attempt),
     sleeps |-> <<RetryAfterWait(r, attempt), 2 ^ attempt>>]

\* A 429: sleep(wait), then continue with the next attempt.
On429(r, attempt, last_err) ==
    [done |-> FALSE, last_err |-> last_err, sleeps |-> <<RetryAfterWait(r, attempt)>>]

\* AfterResponse that keeps the first error text instead of the last.
AfterResponseKeepsFirst(r, attempt, last_err) ==
    LET keep(t) == IF last_err = NoText THEN t ELSE last_err
    IN CASE r.kind = "429" -> On429(r, attempt, last_err)
         [] r.kind = "ok" -> [done |-> TRUE, last_err |-> last_err, sleeps |-> <<>>]
         [] r.kind = "http_error" ->
               [done |-> FALSE, last_err |-> keep(Text("HTTP", attempt)),
                sleeps |-> <<2 ^ attempt>>]
         [] r.kind = "request_error" ->
               [done |-> FALSE, last_err |-> keep(Text("RequestError", attempt)),
                sleeps |-> <<2 ^ attempt>>]
         [] r.kind = "exception" ->
               [done |-> FALSE, last_err |-> keep(Text("Exception", attempt)),
                sleeps |-> <<2 ^ attempt>>]

\* One pass of the loop body after the POST returned or raised (lines 278-297):
\* whether the Job is done, the new last_err, and the sleeps made before the
\* next pass.
AfterResponse(r, attempt, last_err) ==
    CASE r.kind = "429" -> On429(r, attempt, last_err)
      [] r.kind = "ok" -> [done |-> TRUE, last_err |-> last_err, sleeps |-> <<>>]
      [] r.kind = "http_error" ->
            [done |-> FALSE, last_err |-> Text("HTTP", attempt), sleeps |-> <<2 ^ attempt>>]
      [] r.kind = "request_error" ->
            [done |-> FALSE, last_err |-> Text("RequestError", attempt),
             sleeps |-> <<2 ^ attempt>>]
      [] r.kind = "exception" ->
            [done |-> FALSE, last_err |-> Text("Exception", attempt),
             sleeps |-> <<2 ^ attempt>>]

RECURSIVE Sum(_)
Sum(s) == IF s = <<>> THEN 0 ELSE s[1] + Sum(Tail(s))

\* FinalError without the default text.
FinalErrorNoDefault(last_err) == last_err

\* run.error = last_err or "Unknown error"
FinalError(last_err) == IF last_err.text = "" THEN Text("Unknown error", 0) ELSE last_err

\* ------------------------------------------------------------- worker
Task(rid) == [rid |-> rid, gathered |-> TRUE, pc |-> "wait_sem", attempt |-> 0,
              last_err |-> NoText, resp |-> NoResp, wait |-> 0, fails |-> <<>>]

\* worker_loop without its except clause: the exception ends the task.
OnLoopExceptionEscapes == "dead"

\* The except clause of worker_loop: sleep, then poll again.
OnLoopException == "except_sleep"

\* The poll query: queued rows of this tool, at most PollLimit of them.
RunIds ==
    Take(Ascending({r \in JobIds : /\ tool_runs[r].status = "queued"
                                   /\ tool_runs[r].tool = TOOL}), PollLimit)

\* One pass of worker_loop up to the gather (lines 309-320).
Poll ==
    /\ loop.pc = "poll"
    /\ IF RunIds = <<>>
       THEN /\ loop' = [loop EXCEPT !.pc = "idle_sleep"]
            /\ UNCHANGED tasks
       ELSE /\ loop' = [loop EXCEPT !.pc = "gather"]
            /\ tasks' = tasks \o [i \in DOMAIN RunIds |-> Task(RunIds[i])]
    /\ UNCHANGED <<config, reply, side, store, now, sem, hist, faults>>

\* await asyncio.sleep(2) is over (line 314 or line 322)
LoopWake ==
    /\ loop.pc \in {"idle_sleep", "except_sleep"}
    /\ loop' = [loop EXCEPT !.pc = "poll"]
    /\ UNCHANGED <<config, reply, side, store, now, tasks, sem, hist, faults>>

\* Task i returns: it leaves the semaphore, and the gather that waits for it
\* returns once it was the last.
Return(i, held) ==
    /\ tasks' = Remove(tasks, i)
    /\ sem' = sem + held
    /\ loop' = IF tasks[i].gathered
                  /\ \A j \in DOMAIN tasks : j # i => ~tasks[j].gathered
               THEN [loop EXCEPT !.pc = "poll"]
               ELSE loop

\* Task i raises: it leaves the semaphore; the gather that waits for it raises
\* at once into worker_loop and leaves its other tasks running.
Raise(i, held) ==
    /\ sem' = sem + held
    /\ IF tasks[i].gathered
       THEN /\ tasks' = Remove([j \in DOMAIN tasks |-> [tasks[j] EXCEPT !.gathered = FALSE]], i)
            /\ loop' = [pc |-> OnLoopException, caught |-> loop.caught + 1]
       ELSE /\ tasks' = Remove(tasks, i)
            /\ loop' = loop

\* MayClaim without the test of the status.
MayClaimAnyStatus(run) == ~PayloadFalsy(run.input)

\* status == "queued" and the payload is truthy (line 241)
MayClaim(run) == run.status = "queued" /\ ~PayloadFalsy(run.input)

\* PermitFree that never makes a task wait.
PermitFreeAlways == TRUE

\* async with sem: the task goes on when the semaphore has a permit left
PermitFree == sem > 0

\* async with sem, then _process_run_brightdata up to the claim (lines 317, 230-243)
Start(i) ==
    LET rid == tasks[i].rid
        run == tool_runs[rid]
    IN /\ tasks[i].pc = "wait_sem"
       /\ PermitFree
       /\ IF BRIGHTDATA_TOKEN = ""
          THEN /\ tool_runs' = [tool_runs EXCEPT ![rid].status = "error",
                                   ![rid].error = Text("Missing BRIGHTDATA_TOKEN", 0)]
               /\ Return(i, 0)
               /\ hist' = [hist EXCEPT ![rid].returned = TRUE]
          ELSE IF ~MayClaim(run)
          THEN /\ Return(i, 0)
               /\ hist' = [hist EXCEPT ![rid].returned = TRUE]
               /\ UNCHANGED tool_runs
          ELSE /\ tool_runs' = [tool_runs EXCEPT ![rid].status = "running"]
               /\ hist' = [hist EXCEPT ![rid].claims = @ + 1]
               /\ tasks' = [tasks EXCEPT ![i].pc = "claimed"]
               /\ sem' = sem - 1
               /\ UNCHANGED loop
       /\ UNCHANGED <<config, reply, side, triggers, target_users, now, faults>>

\* the validation of the payload (lines 244-265)
Validate(i) ==
    LET rid == tasks[i].rid
    IN /\ tasks[i].pc = "claimed"
       /\ IF InvalidInput(tool_runs[rid].input)
          THEN /\ tool_runs' = [tool_runs EXCEPT ![rid].status = "error",
                    ![rid].error = Text("Invalid input: need dataset_id and non-empty inputs[]", 0)]
               /\ hist' = [hist EXCEPT ![rid].returned = TRUE]
               /\ Return(i, 1)
          ELSE /\ tasks' = [tasks EXCEPT ![i].pc = "loop"]
               /\ UNCHANGED <<tool_runs, sem, loop, hist>>
       /\ UNCHANGED <<config, reply, side, triggers, target_users, now, faults>>

\* AttemptsLeft off by one.
AttemptsLeftOffByOne(attempt) == attempt <= MaxAttempts

\* while attempt < 3
AttemptsLeft(attempt) == attempt < MaxAttempts

\* the loop head: the next POST; after the loop, the error write (lines 268-277, 299-303)
Attempt(i) ==
    LET rid == tasks[i].rid
    IN /\ tasks[i].pc = "loop"
       /\ IF AttemptsLeft(tasks[i].attempt)
          THEN /\ tasks' = [tasks EXCEPT ![i].attempt = @ + 1, ![i].pc = "await_resp"]
               /\ hist' = [hist EXCEPT ![rid].calls = @ + 1]
               /\ UNCHANGED <<tool_runs, sem, loop>>
          ELSE /\ tool_runs' = [tool_runs EXCEPT ![rid].status = "error",
                                   ![rid].error = FinalError(tasks[i].last_err)]
               /\ Return(i, 1)
               /\ hist' = [hist EXCEPT ![rid].returned = TRUE]
       /\ UNCHANGED <<config, reply, side, triggers, target_users, now, faults>>

\* WriteSuccess that stores the output and forgets the status.
WriteSuccessNoStatus(run, attempt) ==
    [run EXCEPT !.output = [null |-> FALSE, snapshot_id |-> "snap", raw |-> attempt]]

\* run.output = {"snapshot_id": ..., "raw": data}; run.status = "success" (lines 284-289)
WriteSuccess(run, attempt) ==
    [run EXCEPT !.status = "success",
                !.output = [null |-> FALSE, snapshot_id |-> "snap", raw |-> attempt]]

\* the POST returns or raises, and the loop body runs to its next await (lines 278-297)
Respond(i, r) ==
    LET rid == tasks[i].rid
        a == AfterResponse(r, tasks[i].attempt, tasks[i].last_err)
    IN /\ tasks[i].pc = "await_resp"
       /\ hist' = [hist EXCEPT ![rid].ok = @ \/ r.kind = "ok",
                               ![rid].returned = @ \/ a.done]
       /\ IF a.done
          THEN /\ tool_runs' = [tool_runs EXCEPT ![rid] = WriteSuccess(@, tasks[i].attempt)]
               /\ Return(i, 1)
          ELSE /\ tasks' = [tasks EXCEPT ![i].pc = "sleep", ![i].last_err = a.last_err,
                                         ![i].resp = r, ![i].wait = Sum(a.sleeps),
                                         ![i].fails = Append(@, r.kind)]
               /\ UNCHANGED <<tool_runs, sem, loop>>
       /\ UNCHANGED <<config, reply, side, triggers, target_users, now, faults>>

\* the sleep after a failed attempt is over
Wake(i) ==
    /\ tasks[i].pc = "sleep"
    /\ tasks' = [tasks EXCEPT ![i].pc = "loop", ![i].resp = NoResp, ![i].wait = 0]
    /\ UNCHANGED <<config, reply, side, store, now, loop, sem, hist, faults>>

\* ------------------------------------------------------------- store faults
\* A store operation (a session, a query, a commit) raises: the transaction it
\* was part of leaves the store unchanged.
Fault ==
    /\ faults < MaxFaults
    /\ faults' = faults + 1
    /\ UNCHANGED <<config, reply, side, store, now>>

\* the poll query raises inside the try of worker_loop (lines 309-312, 321-322)
PollRaise ==
    /\ loop.pc = "poll"
    /\ Fault
    /\ loop' = [pc |-> OnLoopException, caught |-> loop.caught + 1]
    /\ UNCHANGED <<tasks, sem, hist>>

\* the first store block of the handler raises (lines 232-236 or 239-243)
StartRaise(i) ==
    /\ tasks[i].pc = "wait_sem"
    /\ sem > 0
    /\ Fault
    /\ Raise(i, 0)
    /\ hist' = [hist EXCEPT ![tasks[i].rid].returned = TRUE]

\* the write of the validation error raises (lines 253-257)
ValidateRaise(i) ==
    /\ tasks[i].pc = "claimed"
    /\ InvalidInput(tool_runs[tasks[i].rid].input)
    /\ Fault
    /\ Raise(i, 1)
    /\ hist' = [hist EXCEPT ![tasks[i].rid].returned = TRUE]

\* the write of the success raises: it is inside the try, so it is caught as
\* "Exception" and the attempt counts as failed (lines 284-289, 295-297)
SuccessWriteRaise(i) ==
    LET rid == tasks[i].rid
        a == AfterResponse(Resp("exception", FALSE, <<>>), tasks[i].attempt, tasks[i].last_err)
    IN /\ tasks[i].pc = "await_resp"
       /\ Fault
       /\ hist' = [hist EXCEPT ![rid].ok = TRUE]
       /\ tasks' = [tasks EXCEPT ![i].pc = "sleep", ![i].last_err = a.last_err,
                                 ![i].resp = Resp("ok", FALSE, <<>>),
                                 ![i].wait = Sum(a.sleeps),
                                 ![i].fails = Append(@, "exception")]
       /\ UNCHANGED <<loop, sem>>

\* the write of the final error raises (lines 299-303)
FinalWriteRaise(i) ==
    /\ tasks[i].pc = "loop"
    /\ ~AttemptsLeft(tasks[i].attempt)
    /\ Fault
    /\ Raise(i, 1)
    /\ hist' = [hist EXCEPT ![tasks[i].rid].returned = TRUE]

\* ------------------------------------------------------------- concurrent syncs
\* bulk_sync is a plain def: every request runs on a thread of its own, and
\* the query of line 146 and the commit of line 163 of one request can have
\* those of another between them.

\* A request that has read the active rows: the rows and ids it saw, and every
\* id the table held at that time.
Inflight(request) ==
    [request |-> request, existing |-> ActiveRows, ids |-> ExistingIds,
     stored |-> {target_users[i].distinct_id : i \in DOMAIN target_users},
     pc |-> "read", code |-> 0]

\* _require_secret and the query of the active rows (lines 142-147)
BulkSyncRead(secret, window, distinct_ids, mode) ==
    /\ variant = "aggregate"
    /\ LET request == SyncRequest(secret, window, distinct_ids, mode)
       IN IF ~RequireSecret(secret)
          THEN /\ reply' = Reply(request, 401, 0, 0)
               /\ UNCHANGED syncs
          ELSE /\ syncs' = Append(syncs, Inflight(request))
               /\ UNCHANGED reply
    /\ UNCHANGED <<config, store, now, worker, faults, bd_results, sentiment, apistate, peer>>

\* The rest of bulk_sync for request k (lines 149-187): the rows it saw active
\* and did not receive are deactivated, the ids it did not see active are
\* inserted, and the commit raises when the table holds one of them by now.
BulkSyncCommit(k) ==
    LET sync == syncs[k]
        incoming == Range(sync.request.distinct_ids)
        removed == IF sync.request.mode = "replace"
                   THEN {i \in sync.existing : target_users[i].distinct_id \notin incoming}
                   ELSE {}
        added == incoming \ sync.ids
        conflict == \E did \in added : UniqueViolation(did)
    IN /\ variant = "aggregate"
       /\ sync.pc = "read"
       /\ IF conflict
          THEN /\ reply' = Reply(sync.request, 500, 0, 0)
               /\ syncs' = [syncs EXCEPT ![k].pc = "done", ![k].code = 500]
               /\ UNCHANGED <<store, now, hist>>
          ELSE /\ target_users' =
                      Deactivate(removed) \o Targets(SetToSeq(added), sync.request.window)
               /\ triggers' = Append(triggers,
                      SyncTrigger(sync.request.window, Cardinality(incoming)))
               /\ tool_runs' = Append(tool_runs, SyncJob(Len(triggers) + 1))
               /\ hist' = Append(hist, NoHist)
               /\ now' = now + 1
               /\ reply' = Reply(sync.request, 200, Cardinality(added), Cardinality(removed))
               /\ syncs' = [syncs EXCEPT ![k].pc = "done", ![k].code = 200]
       /\ UNCHANGED <<config, loop, tasks, sem, faults, bd_results, sentiment, apistate, peer>>

\* ------------------------------------------------------------- a second worker process
\* How far the second process got with Job r.
PeerPc(r) == IF \E e \in peer : e[1] = r
             THEN (CHOOSE e \in peer : e[1] = r)[2]
             ELSE "idle"
PeerAt(r, pc) == {e \in peer : e[1] # r} \cup {<<r, pc>>}

\* Its task for Job r reads the row (db.get, lines 239-241) and goes on when
\* the row is queued with a non-empty input; the poll of its worker_loop
\* (lines 309-312) has selected the row before.
PeerRead(r) ==
    /\ variant = "aggregate"
    /\ BRIGHTDATA_TOKEN # ""
    /\ PeerPc(r) = "idle"
    /\ tool_runs[r].tool = TOOL
    /\ MayClaim(tool_runs[r])
    /\ peer' = PeerAt(r, "read")
    /\ UNCHANGED <<config, reply, store, now, worker, faults, bd_results, sentiment,
                   apistate, syncs>>

\* An UPDATE that only applies while the row is still queued.
PeerMayWriteIfQueued(r) == tool_runs[r].status = "queued"

\* run.status = "running"; db.add(run); db.commit() (line 242): the UPDATE
\* names the row by its id alone, whatever its status has become
PeerMayWrite(r) == TRUE

\* It marks the row running (lines 242-243).
PeerClaim(r) ==
    /\ PeerPc(r) = "read"
    /\ IF PeerMayWrite(r)
       THEN /\ tool_runs' = [tool_runs EXCEPT ![r].status = "running"]
            /\ peer' = PeerAt(r, "claimed")
       ELSE /\ peer' = PeerAt(r, "lost")
            /\ UNCHANGED tool_runs
    /\ UNCHANGED <<config, reply, triggers, target_users, now, worker, faults, bd_results,
                   sentiment, apistate, syncs>>

\* It validates the payload (lines 244-257) and sends its first POST (line 270).
PeerPost(r) ==
    /\ PeerPc(r) = "claimed"
    /\ IF InvalidInput(tool_runs[r].input)
       THEN /\ tool_runs' = [tool_runs EXCEPT ![r].status = "error",
                 ![r].error = Text("Invalid input: need dataset_id and non-empty inputs[]", 0)]
            /\ peer' = PeerAt(r, "done")
       ELSE /\ peer' = PeerAt(r, "posted")
            /\ UNCHANGED tool_runs
    /\ UNCHANGED <<config, reply, triggers, target_users, now, worker, faults, bd_results,
                   sentiment, apistate, syncs>>

\* Its attempts end (lines 267-303): one of them succeeded, or all three
\* failed with the same HTTP error.
PeerEnd(r, ok) ==
    /\ PeerPc(r) = "posted"
    /\ tool_runs' = [tool_runs EXCEPT ![r] =
           IF ok THEN WriteSuccess(@, 1)
           ELSE [@ EXCEPT !.status = "error", !.error = FinalError(Text("HTTP 500", MaxAttempts))]]
    /\ peer' = PeerAt(r, "done")
    /\ UNCHANGED <<config, reply, triggers, target_users, now, worker, faults, bd_results,
                   sentiment, apistate, syncs>>

Peer ==
    \/ \E r \in JobIds : PeerRead(r)
    \/ \E r \in JobIds : PeerClaim(r)
    \/ \E r \in JobIds : PeerPost(r)
    \/ \E r \in JobIds, ok \in BOOLEAN : PeerEnd(r, ok)

\* ------------------------------------------------------------- specifications
Modes == {"replace", "append"}
IdLists == {<<>>, <<"a">>}

ValidPayload == Payload(FALSE, {"dataset_id", "inputs", "format"}, "gd", "list")

\* The stores found at start-up: at most n queued rows with payloads of P.
SeedRuns(P, n) ==
    UNION {[1..k -> {ToolRun(0, "queued", p, NoText) : p \in P}] : k \in 0..n}

\* The outcomes of a POST told apart where only the Job's life cycle matters.
LifecycleResponses ==
    { Resp("ok", FALSE, <<>>), Resp("http_error", FALSE, <<>>), Resp("429", FALSE, <<>>) }

\* before simple_sentiment was called
NoSentiment == [text |-> <<>>, mcp |-> "", api |-> ""]

InitWorker(concurrencies, tokens, datasets, seeds) ==
    /\ WORKER_CONCURRENCY \in concurrencies
    /\ BRIGHTDATA_TOKEN \in tokens
    /\ BRIGHTDATA_DATASET_SEARCH \in datasets
    /\ tool_runs \in seeds
    /\ hist = [i \in DOMAIN tool_runs |-> NoHist]
    /\ triggers = <<>>
    /\ target_users = <<>>
    /\ now = 0
    /\ loop = [pc |-> "poll", caught |-> 0]
    /\ tasks = <<>>
    /\ sem = WORKER_CONCURRENCY
    /\ faults = 0

InitSideWith(variants, vaders, api_tokens) ==
    /\ variant \in variants
    /\ _vader \in vaders
    /\ API_TOKEN \in api_tokens
    /\ reply = NoReply
    /\ bd_results = <<>>
    /\ runs = <<>>
    /\ reviews = <<>>
    /\ bg = <<>>
    /\ peer = {}
    /\ syncs = <<>>
    /\ sentiment = NoSentiment

InitSide(variants, vaders) == InitSideWith(variants, vaders, {"api_token"})

\* The service of dispatcher_20250726135709.py at start-up.
InitWith(concurrencies, tokens, datasets, seeds) ==
    /\ InitWorker(concurrencies, tokens, datasets, seeds)
    /\ InitSide({"aggregate"}, {FALSE})

Sync ==
    /\ Len(tool_runs) < MaxJobs
    /\ \E distinct_ids \in IdLists :
           BulkSync(Secret(DISPATCHER_SECRET), "W1", distinct_ids, "replace")

\* The steps of the worker, the POST ending in one of R.
Worker(R) ==
    \/ Poll
    \/ LoopWake
    \/ \E i \in DOMAIN tasks : Start(i)
    \/ \E i \in DOMAIN tasks : Validate(i)
    \/ \E i \in DOMAIN tasks : Attempt(i)
    \/ \E i \in DOMAIN tasks, r \in R : Respond(i, r)
    \/ \E i \in DOMAIN tasks : Wake(i)

\* The store raises.
StoreFaults ==
    \/ PollRaise
    \/ \E i \in DOMAIN tasks : StartRaise(i)
    \/ \E i \in DOMAIN tasks : ValidateRaise(i)
    \/ \E i \in DOMAIN tasks : SuccessWriteRaise(i)
    \/ \E i \in DOMAIN tasks : FinalWriteRaise(i)

\* The event loop runs every ready task, every sleep ends, and every POST
\* returns or fails within its timeout.
Fairness(R) ==
    /\ WF_vars(Poll)
    /\ WF_vars(LoopWake)
    /\ WF_vars(\E i \in DOMAIN tasks : Start(i))
    /\ WF_vars(\E i \in DOMAIN tasks : Validate(i))
    /\ WF_vars(\E i \in DOMAIN tasks : Attempt(i))
    /\ WF_vars(\E i \in DOMAIN tasks, r \in R : Respond(i, r))
    /\ WF_vars(\E i \in DOMAIN tasks : Wake(i))

\* Spec: the service under every configuration, with any rows in the store at
\* start-up, syncs arriving at any time, and a store that does not raise.
Init == InitWith({1, 2}, {"", "brd_token"}, {"", "gd"}, SeedRuns(SeedPayloads, MaxSeed))
Next == Sync \/ Worker(LifecycleResponses)
Spec == Init /\ [][Next]_vars

\* FairSpec: the worker with a token, on a store of queued Jobs some of which
\* carry an input the worker rejects, scheduled fairly.
InitFair ==
    /\ InitWith({1, 2}, {"brd_token"}, {"gd"},
                SeedRuns({ValidPayload, Payload(FALSE, {"inputs", "format"}, "", "list"),
                          Payload(FALSE, {"dataset_id", "inputs", "format"}, "gd", "str")},
                         MaxJobs))
    /\ tool_runs # <<>>
NextFair == Worker(LifecycleResponses)
FairSpec == InitFair /\ [][NextFair]_vars /\ Fairness(LifecycleResponses)

\* FairSpecQueue: the worker with a token, scheduled fairly, on a store of
\* queued Jobs some of which carry an empty input ({} or null).
InitQueue ==
    /\ InitWith({1, 2}, {"brd_token"}, {"gd"},
                SeedRuns({ValidPayload, Payload(FALSE, {}, "", "null"),
                          Payload(TRUE, {}, "", "null")}, MaxJobs))
    /\ tool_runs # <<>>
NextQueue == Worker(LifecycleResponses)
FairSpecQueue == InitQueue /\ [][NextQueue]_vars /\ Fairness(LifecycleResponses)

\* SpecRetry: the worker on a store of valid queued Jobs, with every outcome of
\* a POST.
InitRetry ==
    /\ InitWith({1}, {"brd_token"}, {"gd"}, SeedRuns({ValidPayload}, MaxJobs))
    /\ tool_runs # <<>>
NextRetry == Worker(Responses)
SpecRetry == InitRetry /\ [][NextRetry]_vars

\* The outcomes of a POST told apart where only a raise matters.
FaultResponses == { Resp("ok", FALSE, <<>>), Resp("http_error", FALSE, <<>>) }

\* SpecFault: the worker with a store that may raise, on a store of queued Jobs.
InitFault ==
    /\ InitWith({1, 2}, {"brd_token"}, {"gd"},
                SeedRuns({ValidPayload, Payload(FALSE, {"inputs", "format"}, "", "list")},
                         MaxJobs))
    /\ tool_runs # <<>>
NextFault == Worker(FaultResponses) \/ StoreFaults
SpecFault == InitFault /\ [][NextFault]_vars

\* SpecSync: the sync endpoint of each of the three dispatchers on an empty
\* store (the background tasks of dispatcher_api run in FairSpecApi).
SyncSecrets == {Secret(DISPATCHER_SECRET), Secret(API_SECRET), NoSecret}
SyncWindows == {"W1", "W2"}
SyncIdLists == {<<>>, <<"a">>, <<"b">>, <<"a", "b">>, <<"a", "a">>}
InitSync ==
    /\ InitWorker({1}, {"brd_token"}, {"gd"}, {<<>>})
    /\ InitSide({"aggregate", "per_addition", "api"}, {FALSE})
NextSync ==
    \/ /\ now < MaxSyncs
       /\ \E secret \in SyncSecrets, window \in SyncWindows, distinct_ids \in SyncIdLists,
             mode \in Modes : BulkSync(secret, window, distinct_ids, mode)
    \/ /\ now < MaxSyncs
       /\ \E secret \in SyncSecrets, window \in SyncWindows, distinct_ids \in SyncIdLists,
             mode \in Modes : BulkSyncPerAddition(secret, window, distinct_ids, mode)
    \/ /\ Len(runs) < MaxSyncs
       /\ \E secret \in SyncSecrets, window \in SyncWindows, insert \in SyncIdLists :
             SyncTargets(secret, window, insert)
SpecSync == InitSync /\ [][NextSync]_vars

\* SpecStub: the per-addition dispatcher, its sync endpoint and its stub worker.
\* FairSpecApi: dispatcher_api with and without API_TOKEN: syncs arrive, the
\* background tasks are scheduled fairly and every POST returns; the commit
\* that ends a task may raise.
ApiIdLists == {<<>>, <<"a", "b">>}
InitApi ==
    /\ InitWorker({1}, {"brd_token"}, {"gd"}, {<<>>})
    /\ InitSideWith({"api"}, {FALSE}, {"", "api_token"})
NextApi ==
    \/ /\ Len(runs) < MaxRuns
       /\ \E secret \in {Secret(API_SECRET), NoSecret}, insert \in ApiIdLists :
             SyncTargets(secret, "W1", insert)
    \/ Process
    \/ \E r \in DOMAIN bg : ProcessRaise(r)
FairnessApi ==
    /\ WF_vars(\E r \in DOMAIN bg : Construct(r))
    /\ WF_vars(\E r \in DOMAIN bg, found \in SnapshotOutcomes, raised \in BOOLEAN :
                   harvest_for_user(r, found, raised))
    /\ WF_vars(\E r \in DOMAIN bg : ProcessSuccess(r))
    /\ WF_vars(\E r \in DOMAIN bg : ProcessError(r))
FairSpecApi == InitApi /\ [][NextApi]_vars /\ FairnessApi

InitStub ==
    /\ InitWorker({1}, {"brd_token"}, {"gd"}, {<<>>})
    /\ InitSide({"per_addition"}, {FALSE})
NextStub ==
    \/ /\ now < MaxSyncs
       /\ \E distinct_ids \in SyncIdLists, mode \in Modes :
             BulkSyncPerAddition(Secret(DISPATCHER_SECRET), "W1", distinct_ids, mode)
    \/ \E r \in JobIds : StubMarkRunning(r)
    \/ \E r \in JobIds : StubMarkSuccess(r)
SpecStub == InitStub /\ [][NextStub]_vars

\* The scraped records the provider pushes.
Records ==
    { [title |-> Str("Devpost"), text |-> Str("love it"), url |-> Str("u1")],
      [headline |-> Str("Hackathon"), text |-> Str(" "), snippet |-> Str("hate it"),
       link |-> Str("u2")],
      [title |-> NonStr, text |-> Str(""), url |-> Str("u3")] }
Batches == UNION {[1..n -> Records] : n \in 0..2}
WebhookPayloads ==
    {[records |-> b, snapshot_id |-> "snap"] : b \in Batches}
    \cup {[records |-> <<>>, data |-> b, snapshot_id |-> "", id |-> "snap"] : b \in Batches}
    \cup {[data |-> b] : b \in Batches}

\* SpecResults: the dispatch worker on a store of valid queued Jobs, and the
\* webhook.
InitResults ==
    /\ InitWorker({1}, {"brd_token"}, {"gd"}, SeedRuns({ValidPayload}, MaxSeed))
    /\ tool_runs # <<>>
    /\ InitSide({"aggregate"}, BOOLEAN)
NextResults ==
    \/ Worker(FaultResponses)
    \/ /\ Len(bd_results) < MaxResults
       /\ \E payload \in WebhookPayloads : brightdata_webhook(payload)
SpecResults == InitResults /\ [][NextResults]_vars

\* SpecInbox: the aggregate dispatcher with its worker and its webhook, and
\* dispatcher_api with its background tasks; the inbox is read at any time.
InboxPayloads ==
    {[records |-> <<[title |-> Str("Devpost"), text |-> Str("love it"), url |-> Str("u1")]>>,
      snapshot_id |-> "snap"]}
InitInbox ==
    /\ InitWorker({1}, {"brd_token"}, {"gd"}, {<<>>})
    /\ InitSideWith({"aggregate", "api"}, {TRUE}, {"", "api_token"})
NextInbox ==
    \/ /\ Len(tool_runs) < MaxJobs
       /\ \E distinct_ids \in IdLists :
             BulkSync(Secret(DISPATCHER_SECRET), "W1", distinct_ids, "replace")
    \/ Worker(FaultResponses)
    \/ /\ Len(bd_results) < MaxResults
       /\ \E payload \in InboxPayloads : brightdata_webhook(payload)
    \/ /\ Len(runs) < MaxRuns
       /\ \E insert \in ApiIdLists : SyncTargets(Secret(API_SECRET), "W1", insert)
    \/ Process
    \/ inbox
SpecInbox == InitInbox /\ [][NextInbox]_vars

\* SpecRace: bulk_sync requests of the aggregate dispatcher that overlap.
RaceIdLists == {<<>>, <<"a">>, <<"a", "b">>}
InitRace ==
    /\ InitWorker({1}, {"brd_token"}, {"gd"}, {<<>>})
    /\ InitSide({"aggregate"}, {FALSE})
NextRace ==
    \/ /\ Len(syncs) < MaxInflight
       /\ \E secret \in {Secret(DISPATCHER_SECRET), NoSecret}, distinct_ids \in RaceIdLists,
             mode \in Modes : BulkSyncRead(secret, "W1", distinct_ids, mode)
    \/ \E k \in DOMAIN syncs : BulkSyncCommit(k)
SpecRace == InitRace /\ [][NextRace]_vars

\* SpecPeers: two worker processes on one store of queued Jobs.
InitPeers ==
    /\ InitWith({1}, {"brd_token"}, {"gd"},
                SeedRuns({ValidPayload, Payload(FALSE, {"inputs", "format"}, "", "list")},
                         MaxSeed))
    /\ tool_runs # <<>>
NextPeers == Worker(FaultResponses) \/ Peer
SpecPeers == InitPeers /\ [][NextPeers]_vars

\* SpecSentiment: simple_sentiment on every text of at most MaxLen tokens.
Tokens == {"good", "Great", "bad", "BAD", "debug", "winner", "the"}
InitSentiment == InitWith({1}, {"brd_token"}, {"gd"}, {<<>>})
NextSentiment ==
    \/ SimpleSentiment(<<>>)
    \/ /\ Len(sentiment.text) < MaxLen
       /\ \E token \in Tokens : SimpleSentiment(Append(sentiment.text, token))
SpecSentiment == InitSentiment /\ [][NextSentiment]_vars

\* ------------------------------------------------------------- claims
Terminal == {"success", "error"}
StatusOf(r) == tool_runs[r].status
TasksOf(r) == {i \in DOMAIN tasks : tasks[i].rid = r}

\* C1: every status change of a Job is queued->running, running->success or
\* running->error, under every configuration (stated as the claim states it;
\* the worker breaks it when BRIGHTDATA_TOKEN is unset).
C1_OnlyForwardSteps ==
    [][\A r \in DOMAIN tool_runs :
          tool_runs'[r].status # tool_runs[r].status =>
              <<tool_runs[r].status, tool_runs'[r].status>> \in
                  { <<"queued", "running">>, <<"running", "success">>,
                    <<"running", "error">> }]_vars

\* C2: while a Job is queued or running its output and error are both empty;
\* a successful Job has no error and a failed Job has no output.
C2_OutputErrorExclusive ==
    \A r \in JobIds :
        /\ StatusOf(r) \in {"queued", "running"} =>
               tool_runs[r].output.null /\ tool_runs[r].error = NoText
        /\ StatusOf(r) = "success" => tool_runs[r].error = NoText
        /\ StatusOf(r) = "error" => tool_runs[r].output.null

C2_Witness ==
    \E r, q \in JobIds :
        /\ StatusOf(r) = "success" /\ ~tool_runs[r].output.null
        /\ StatusOf(q) = "error" /\ tool_runs[q].error # NoText

\* C3 as stated: every Job row is created in status queued.
C3_CreatedQueued ==
    [][\A r \in DOMAIN tool_runs' \ DOMAIN tool_runs :
          tool_runs'[r].status = "queued"]_vars

\* C3 amended: a Job row is created in status queued, except that bulk_sync
\* with no dataset configured creates its Job in status error with the error
\* text "Missing BRIGHTDATA_DATASET_SEARCH"; none is created running or success.
C3_CreatedQueuedUnlessNoDataset ==
    [][\A r \in DOMAIN tool_runs' \ DOMAIN tool_runs :
          IF BRIGHTDATA_DATASET_SEARCH = ""
          THEN /\ tool_runs'[r].status = "error"
               /\ tool_runs'[r].error.text = "Missing BRIGHTDATA_DATASET_SEARCH"
          ELSE /\ tool_runs'[r].status = "queued"
               /\ tool_runs'[r].error = NoText]_vars

C3_Witness ==
    /\ BRIGHTDATA_DATASET_SEARCH = ""
    /\ \E r \in JobIds : tool_runs[r].trigger_id > 0 /\ StatusOf(r) = "error"

\* C4: in one worker process a Job is claimed at most once, and a POST is only
\* in flight or about to be made for a Job that is running, never for one that
\* is success or error, also when several tasks were started for the same Job.
C4_ClaimedOnce ==
    \A r \in JobIds :
        /\ hist[r].claims <= 1
        /\ \A i \in TasksOf(r) :
               tasks[i].pc \in {"claimed", "loop", "await_resp", "sleep"} =>
                   /\ StatusOf(r) = "running"
                   /\ \A j \in TasksOf(r) : j # i => tasks[j].pc = "wait_sem"

C4_Witness ==
    \E r \in JobIds : \E i, j \in TasksOf(r) :
        /\ i # j
        /\ tasks[i].pc = "await_resp"
        /\ tasks[j].pc = "wait_sem"
        /\ hist[r].claims = 1

\* The payloads C5 calls invalid: no dataset identifier, inputs missing, not a
\* list or empty, or no payload at all.
C5_Invalid(p) ==
    \/ p.null \/ p.keys = {}
    \/ "dataset_id" \notin p.keys \/ p.dataset_id = ""
    \/ "inputs" \notin p.keys \/ p.inputs # "list"

\* C5: once the handler has returned for a Job whose input is invalid, the Job
\* is in status error with an error text, and no POST was made for it.
C5_InvalidEndsInError ==
    \A r \in JobIds :
        C5_Invalid(tool_runs[r].input) /\ hist[r].returned =>
            /\ StatusOf(r) = "error"
            /\ tool_runs[r].error # NoText
            /\ hist[r].calls = 0

C7_ErrorOfThirdAttempt ==
    \A r \in JobIds :
        StatusOf(r) = "error" /\ hist[r].calls = 3 =>
            /\ tool_runs[r].error.attempt = 3
            /\ tool_runs[r].error.text \in {"HTTP", "RequestError", "Exception"}

\* The text of the last failure in fails that was not a 429, "Unknown error"
\* when all were.
C7_LastRecorded(fails) ==
    LET rec == {k \in DOMAIN fails : fails[k] # "429"}
    IN IF rec = {} THEN Text("Unknown error", 0)
       ELSE LET k == CHOOSE x \in rec : \A y \in rec : y <= x
            IN Text(CASE fails[k] = "http_error" -> "HTTP"
                      [] fails[k] = "request_error" -> "RequestError"
                      [] fails[k] = "exception" -> "Exception", k)

\* C7 amended: when all 3 attempts fail the Job ends in status error, and its
\* error is the text of the last failed attempt that was not an HTTP 429 (a 429
\* records no text), or "Unknown error" when all three were 429.
C7_ErrorOfLastRecorded ==
    [][\A i \in DOMAIN tasks :
          tasks[i].pc = "loop" /\ tasks[i].attempt = 3 /\ tasks' = Remove(tasks, i) =>
              /\ Len(tasks[i].fails) = 3
              /\ tool_runs'[tasks[i].rid].status = "error"
              /\ tool_runs'[tasks[i].rid].error = C7_LastRecorded(tasks[i].fails)]_vars

C7_Witness ==
    \E r \in JobIds :
        /\ StatusOf(r) = "error" /\ hist[r].calls = 3
        /\ tool_runs[r].error = Text("RequestError", 3)

\* C8: the wait after failed attempt k is the Retry-After value for a 429 that
\* carries a number of seconds, and 2^k in every other case; never their sum.
C8_WaitAfterFailure ==
    \A i \in DOMAIN tasks :
        tasks[i].pc = "sleep" =>
            LET k == tasks[i].attempt
                r == tasks[i].resp
                backoff == CASE k = 1 -> 2 [] k = 2 -> 4 [] k = 3 -> 8
            IN /\ k \in 1..3
               /\ tasks[i].wait =
                    IF r.kind = "429" /\ r.has_ra /\ r.ra = <<"1", "2">> THEN 12
                    ELSE IF r.kind = "429" /\ r.has_ra /\ r.ra = <<"0">> THEN 0
                    ELSE backoff

C8_Witness ==
    \E i \in DOMAIN tasks :
        /\ tasks[i].pc = "sleep" /\ tasks[i].attempt = 3
        /\ tasks[i].resp = Resp("429", TRUE, <<"1", "2">>)
        /\ tasks[i].wait = 12

C10_LoopSurvives ==
    /\ loop.pc \in {"poll", "gather", "idle_sleep", "except_sleep"}
    /\ loop.pc = "except_sleep" => ENABLED LoopWake

C10_Witness ==
    /\ loop.caught = 1
    /\ loop.pc = "gather"
    /\ \E i \in DOMAIN tasks : ~tasks[i].gathered

\* The tasks that hold a permit of the semaphore.
Holders == {i \in DOMAIN tasks : tasks[i].pc \in {"claimed", "loop", "await_resp", "sleep"}}

\* C11: at most WORKER_CONCURRENCY tasks hold a permit, hence at most that many
\* POSTs are in flight, and the permits held and the permits left add up to
\* WORKER_CONCURRENCY; also for a batch of 2 x WORKER_CONCURRENCY Jobs and after
\* the loop caught an exception.
C11_AtMostConcurrency ==
    /\ Cardinality(Holders) <= WORKER_CONCURRENCY
    /\ Cardinality({i \in DOMAIN tasks : tasks[i].pc = "await_resp"}) <= WORKER_CONCURRENCY
    /\ sem = WORKER_CONCURRENCY - Cardinality(Holders)

C11_Witness ==
    /\ WORKER_CONCURRENCY = 1
    /\ loop.caught = 1
    /\ Cardinality({i \in DOMAIN tasks : tasks[i].gathered}) = 2 * WORKER_CONCURRENCY
    /\ \E i \in DOMAIN tasks : ~tasks[i].gathered
    /\ \E i \in DOMAIN tasks : tasks[i].pc = "await_resp"
    /\ \E i \in DOMAIN tasks : tasks[i].pc = "wait_sem"

\* The secret a sync request must carry.
ConfiguredSecret == IF variant = "api" THEN API_SECRET ELSE DISPATCHER_SECRET
\* The tables of the three dispatchers.
Tables == <<target_users, triggers, tool_runs, bd_results, runs>>
\* The reply answers a sync request.
SyncReplied == reply.code # 0 /\ "secret" \in DOMAIN reply.request

\* C12: a sync request without the secret or with another secret than the
\* configured one is answered with 401, and the step that answers 401 leaves
\* every table as it was.
C12_Unauthorized ==
    /\ [](SyncReplied =>
             (reply.request.secret # Secret(ConfiguredSecret) => reply.code = 401))
    /\ [][reply'.code = 401 /\ reply' # reply => UNCHANGED Tables]_vars

C12_Witness ==
    /\ SyncReplied
    /\ reply.code = 401
    /\ reply.request.secret = NoSecret
    /\ target_users # <<>>
    /\ tool_runs # <<>>

\* The reply answers an authorized bulk_sync.
BulkSyncReplied ==
    /\ variant \in {"aggregate", "per_addition"}
    /\ SyncReplied
    /\ reply.code # 401
\* The distinct_ids of the active Target rows.
ActiveIds == {target_users[i].distinct_id : i \in ActiveRows}

\* C13: every authorized replace-mode bulk_sync completes with 200 and leaves
\* the active Target ids equal to the ids it received (stated as the claim
\* states it; the unique constraint breaks it for an id that comes back).
C13_ReplaceTracksIncoming ==
    (BulkSyncReplied /\ reply.request.mode = "replace") =>
        /\ reply.code = 200
        /\ ActiveIds = Range(reply.request.distinct_ids)

\* A sync that reached the store has just been answered.
SyncStep == now' # now /\ variant \in {"aggregate", "per_addition"}
\* The Jobs a step has added.
NewJobs == (DOMAIN tool_runs') \ (DOMAIN tool_runs)
\* The Target rows a step has added.
NewTargets == (DOMAIN target_users') \ (DOMAIN target_users)

\* C14: a replace-mode sync leaves every Target row unchanged whose id is
\* active and incoming, or neither, and creates no Job for such an id.
C14_Untouched ==
    [][(SyncStep /\ reply'.request.mode = "replace") =>
          LET incoming == Range(reply'.request.distinct_ids)
              same == {i \in DOMAIN target_users :
                          (i \in ActiveRows) <=> (target_users[i].distinct_id \in incoming)}
          IN /\ \A i \in same : /\ i \in DOMAIN target_users'
                                 /\ target_users'[i] = target_users[i]
             /\ \A j \in NewJobs :
                    "user_distinct_id" \in DOMAIN tool_runs'[j].input =>
                        \A i \in same :
                            tool_runs'[j].input.user_distinct_id # target_users[i].distinct_id
      ]_vars

C14_Witness ==
    /\ BulkSyncReplied
    /\ reply.code = 200
    /\ reply.request.mode = "replace"
    /\ reply.request.window = "W2"
    /\ \E i, j \in DOMAIN target_users :
          /\ target_users[i].distinct_id = "b"
          /\ "b" \in Range(reply.request.distinct_ids)
          /\ target_users[i].active = 1
          /\ target_users[i].window = "W1"
          /\ target_users[i].updated_at < now - 1
          /\ target_users[j].distinct_id = "a"
          /\ target_users[j].active = 0

\* C15: in the per-addition variant a bulk_sync answered with 200 adds one
\* queued Job per Target row it inserted, for the id of that row, and no other
\* Job; their number is the inserted count of the response, an id sent twice
\* counting once.
C15_OneJobPerAddition ==
    [][(SyncStep /\ variant = "per_addition" /\ reply'.code = 200) =>
          /\ Cardinality(NewJobs) = reply'.inserted
          /\ Cardinality(NewTargets) = reply'.inserted
          /\ reply'.inserted =
                 Cardinality(Range(reply'.request.distinct_ids) \ ActiveIds)
          /\ \A j \in NewJobs : tool_runs'[j].status = "queued"
          /\ \A i \in NewTargets :
                 Cardinality({j \in NewJobs : tool_runs'[j].input.user_distinct_id =
                                                 target_users'[i].distinct_id}) = 1
          /\ \A j \in NewJobs :
                 \E i \in NewTargets : tool_runs'[j].input.user_distinct_id =
                                           target_users'[i].distinct_id
      ]_vars

C15_Witness ==
    /\ variant = "per_addition"
    /\ BulkSyncReplied
    /\ reply.code = 200
    /\ reply.request.distinct_ids = <<"a", "a">>
    /\ reply.inserted = 1
    /\ Len(tool_runs) = 1
    /\ tool_runs[1].input.user_distinct_id = "a"

\* C16: no two active Target rows have the same distinct_id.
C16_OneActivePerId ==
    \A i, j \in ActiveRows :
        target_users[i].distinct_id = target_users[j].distinct_id => i = j

C16_Witness ==
    /\ BulkSyncReplied
    /\ reply.request.mode = "append"
    /\ reply.request.distinct_ids = <<"a", "a">>
    /\ \E i, j \in DOMAIN target_users :
          /\ target_users[i].distinct_id = "a" /\ target_users[i].active = 1
          /\ target_users[j].distinct_id = "b" /\ target_users[j].active = 0

\* C17: no step removes a Target row or changes its id; the active flag only
\* goes from 1 to 0, and only in a replace-mode sync that did not receive the id.
C17_OnlyReplaceDeactivates ==
    [][/\ Len(target_users') >= Len(target_users)
       /\ \A i \in DOMAIN target_users :
             /\ target_users'[i].distinct_id = target_users[i].distinct_id
             /\ target_users'[i].active # target_users[i].active =>
                    /\ target_users[i].active = 1
                    /\ target_users'[i].active = 0
                    /\ SyncStep
                    /\ reply'.request.mode = "replace"
                    /\ target_users[i].distinct_id \notin Range(reply'.request.distinct_ids)
      ]_vars

C17_Witness ==
    /\ BulkSyncReplied
    /\ reply.code = 200
    /\ reply.request.mode = "append"
    /\ reply.request.distinct_ids = <<>>
    /\ \E i, j \in DOMAIN target_users :
          /\ target_users[i].distinct_id = "a" /\ target_users[i].active = 1
          /\ target_users[j].distinct_id = "b" /\ target_users[j].active = 0

\* The reply answers a push to the webhook.
WebhookReplied == reply.code # 0 /\ "secret" \notin DOMAIN reply.request

\* C18: the webhook called again with the payload it was last called with
\* leaves the Results table as it is (stated as the claim states it;
\* upsert_records adds the rows again).
C18_Idempotent ==
    [][(WebhookReplied /\ reply' = reply) => bd_results' = bd_results]_vars

\* C19: every Result row carries the snapshot id of a Job that is success
\* (stated as the claim states it; the webhook stores whatever it is sent).
C19_ResultsOfSuccessfulJobs ==
    \A k \in DOMAIN bd_results :
        \E r \in JobIds :
            /\ StatusOf(r) = "success"
            /\ tool_runs[r].output.snapshot_id = bd_results[k].snapshot_id

\* The label a margin m gives to the counts p and n.
MarginLabel(p, n, m) ==
    IF p - n >= m THEN "positive" ELSE IF n - p >= m THEN "negative" ELSE "neutral"
\* A token with as many negative keywords as the given one has positive ones,
\* and the other way round.
MirrorToken(token) ==
    CASE token = "good" -> "bad"
      [] token = "bad" -> "good"
      [] token = "Great" -> "BAD"
      [] token = "BAD" -> "Great"
      [] token = "winner" -> "debug"
      [] token = "debug" -> "winner"
      [] OTHER -> token
Mirror(text) == [i \in DOMAIN text |-> MirrorToken(text[i])]
SwapLabel(label) ==
    CASE label = "positive" -> "negative"
      [] label = "negative" -> "positive"
      [] OTHER -> label

\* C20: each simple_sentiment labels a text by its keyword counts p and n alone,
\* with one margin m for both signs (2 in dispatcher_mcp, where every
\* occurrence counts; 1 in dispatcher_api, where a keyword counts once), and a
\* text with the counts swapped gets the swapped label.
C20_SymmetricMargin ==
    sentiment # NoSentiment =>
        LET t == sentiment.text
            m == Mirror(t)
        IN /\ sentiment.mcp = MarginLabel(McpCount(t, POS), McpCount(t, NEG), 2)
           /\ sentiment.api = MarginLabel(ApiCount(t, POS), ApiCount(t, NEG), 1)
           /\ (McpCount(m, POS) = McpCount(t, NEG) /\ McpCount(m, NEG) = McpCount(t, POS))
                  => simple_sentiment_mcp(m) = SwapLabel(sentiment.mcp)
           /\ (ApiCount(m, POS) = ApiCount(t, NEG) /\ ApiCount(m, NEG) = ApiCount(t, POS))
                  => simple_sentiment_api(m) = SwapLabel(sentiment.api)

C20_Witness ==
    /\ sentiment.text = <<"good", "winner", "debug">>
    /\ McpCount(Mirror(sentiment.text), NEG) = 2
    /\ ApiCount(Mirror(sentiment.text), POS) = 1
    /\ sentiment.mcp = "neutral"
    /\ sentiment.api = "positive"

\* C22: a missing API token is found when the configuration is loaded and never
\* while the worker is processing: no Job carries the error "Missing
\* BRIGHTDATA_TOKEN" (stated as the claim states it; the token is only tested
\* inside _process_run_brightdata, which then fails the Job).
C22_NoTokenErrorOnJobs ==
    \A r \in JobIds : tool_runs[r].error.text # "Missing BRIGHTDATA_TOKEN"

\* C25: the loop is about to poll only when no task of an earlier batch is
\* alive (stated as the claim states it; a gather that raised leaves the other
\* tasks of its batch running).
C25_BatchesDoNotOverlap == loop.pc = "poll" => tasks = <<>>

\* C27: every Job in status error has a non-empty error text.
C27_ErrorHasText ==
    \A r \in JobIds : StatusOf(r) = "error" => tool_runs[r].error.text # ""

C27_Witness ==
    \E r \in JobIds :
        /\ StatusOf(r) = "error"
        /\ hist[r].calls = MaxAttempts
        /\ tool_runs[r].error.text = "Unknown error"

\* The Jobs the per-addition bulk_sync has stored for the id of Target row i.
JobsOfTarget(i) ==
    {j \in JobIds : /\ "user_distinct_id" \in DOMAIN tool_runs[j].input
                    /\ tool_runs[j].input.user_distinct_id = target_users[i].distinct_id}

\* C29: in the per-addition variant every stored Target row has exactly one
\* queued Job with a Trigger of its own, after calls that returned and after
\* calls that failed (stated as the claim states it; the Job of an id is only
\* committed with the next id, and is lost when that commit fails).
C29_TargetHasItsJob ==
    (variant = "per_addition" /\ reply.code # 0) =>
        /\ \A i \in DOMAIN target_users :
              /\ Cardinality(JobsOfTarget(i)) = 1
              /\ \A j \in JobsOfTarget(i) :
                    /\ tool_runs[j].status = "queued"
                    /\ tool_runs[j].trigger_id \in DOMAIN triggers
        /\ Len(triggers) = Len(target_users)

\* A step in which the aggregate bulk_sync answers an authorized request.
AuthorizedAggregateSync ==
    /\ variant = "aggregate"
    /\ reply'.code # 0
    /\ "secret" \in DOMAIN reply'.request
    /\ reply'.request.secret = Secret(DISPATCHER_SECRET)
    /\ reply' # reply \/ now' # now

\* C26: in the aggregate variant every authorized bulk_sync adds exactly one
\* Trigger and exactly one Job that references it, whether or not the target
\* set changed (stated as the claim states it; a sync that brings back a
\* deactivated id fails at the commit and adds neither).
C26_OneTriggerOneJob ==
    [][AuthorizedAggregateSync =>
          /\ Len(triggers') = Len(triggers) + 1
          /\ Len(tool_runs') = Len(tool_runs) + 1
          /\ tool_runs'[Len(tool_runs')].trigger_id = Len(triggers')]_vars

\* C28: under fair scheduling every queued Job of the worker's tool eventually
\* leaves queued (stated as the claim states it; a Job whose input is empty is
\* polled again and again and never changes).
C28_QueuedLeaves ==
    \A r \in 1..MaxJobs :
        (r \in JobIds /\ StatusOf(r) = "queued" /\ tool_runs[r].tool = TOOL)
            ~> (r \in JobIds /\ StatusOf(r) # "queued")

AllTables == <<target_users, triggers, tool_runs, bd_results, runs, reviews>>

\* C21: a call of GET /inbox leaves every row of every table as it was.
C21_InboxReadOnly ==
    [][(reply'.code # 0 /\ reply'.request = InboxRequest /\ reply' # reply)
          => UNCHANGED AllTables]_vars

C21_Witness ==
    /\ reply.code = 200
    /\ reply.request = InboxRequest
    /\ variant = "aggregate"
    /\ Len(reply.body) = 2
    /\ reply.body[1].runs # <<>>
    /\ reply.body[1].runs[1].status = "success"
    /\ reply.body[1].sentiment_summary_24h # <<>>
    /\ target_users # <<>>

\* C23: a worker process that has read a Job as queued marks it running
\* whatever another process has done to the row since (the claim is a read
\* followed by an unconditional write), so two processes can both claim one
\* Job and both call the external API for it.
C23_ClaimIsReadThenWrite ==
    \A r \in JobIds :
        /\ PeerPc(r) # "lost"
        /\ PeerPc(r) = "read" => ENABLED PeerClaim(r)
        /\ PeerPc(r) \in {"claimed", "posted"} => StatusOf(r) # "queued"

C23_Witness ==
    \E r \in JobIds :
        /\ hist[r].claims = 1
        /\ hist[r].calls >= 1
        /\ PeerPc(r) = "posted"

\* The active Target rows of id did.
ActiveRowsOf(did) == {i \in ActiveRows : target_users[i].distinct_id = did}

\* Requests j and k have both read the table before it held did, both add did
\* and both have been answered.
BothAdded(j, k, did) ==
    /\ j # k
    /\ syncs[j].pc = "done" /\ syncs[k].pc = "done"
    /\ did \in Range(syncs[j].request.distinct_ids) \ syncs[j].stored
    /\ did \in Range(syncs[k].request.distinct_ids) \ syncs[k].stored

\* C24: when two syncs that add the same new id interleave, both rows are
\* stored and the id has two active Target rows (stated as the claim states
\* it; distinct_id is unique in the store and the later commit fails).
C24_BothRowsStored ==
    \A j, k \in DOMAIN syncs :
        \A did \in {"a", "b"} :
            BothAdded(j, k, did) =>
                /\ syncs[j].code = 200 /\ syncs[k].code = 200
                /\ Cardinality(ActiveRowsOf(did)) = 2

====
